---- MODULE Spec2Model ----
(***************************************************************************)
(* bisect-chrome: the bisection loop of index.js (bisect,                  *)
(* findDownloadableRevision, runScript), and the process launcher          *)
(* (Launcher.launch, killChrome, gracefullyCloseChrome) together with the  *)
(* default evaluation script that drives it (default.js: main, isGood).    *)
(***************************************************************************)
EXTENDS Integers, Sequences, FiniteSets, TLC

\* ------------------------------------------------------------------ bounds

\* Number of revisions between the oldest and the latest one.
RevSpan == 6

\* ------------------------------------------------------- program constants

defaultMinimumRevision == 305043

\* lastRevision(): the latest revision the snapshot server reports.
maxRevision == defaultMinimumRevision + RevSpan

Revisions == defaultMinimumRevision .. maxRevision

\* `return null` of findDownloadableRevision. bisect tests it with
\* `!revision`, which is true of null and of 0 alike, never of a revision >=
\* defaultMinimumRevision.
Null == 0

\* --------------------------------------------------------------- strings
\* A string is the sequence of its characters.

LowerChar(c) ==
  CASE c = "G" -> "g"
    [] c = "O" -> "o"
    [] c = "D" -> "d"
    [] c = "B" -> "b"
    [] c = "A" -> "a"
    [] c = "Y" -> "y"
    [] c = "E" -> "e"
    [] c = "S" -> "s"
    [] c = "N" -> "n"
    [] OTHER -> c

toLowerCase(s) == [i \in DOMAIN s |-> LowerChar(s[i])]

RECURSIVE trimStart(_)
trimStart(s) == IF s # <<>> /\ Head(s) = " " THEN trimStart(Tail(s)) ELSE s

RECURSIVE trimEnd(_)
trimEnd(s) ==
  IF s # <<>> /\ s[Len(s)] = " " THEN trimEnd(SubSeq(s, 1, Len(s) - 1)) ELSE s

trim(s) == trimEnd(trimStart(s))

\* What the user may type at a prompt.
Answers ==
  { <<"G", "O", "O", "D">>, <<"g">>, <<"y", "e", "s">>, <<"y">>,
    <<"b", "a", "d">>, <<"b">>, <<"n">>, <<"n", "o">>, <<" ", "n", "o">>,
    <<"B", "a", "d", " ">>, <<"o", "k">>, <<>> }

\* ------------------------------------------------------------------ state

VARIABLES
  \* bisect (index.js)
  argv,          \* parsed command line: [good, bad, manual]
  avail,         \* revisions browserFetcher.canDownload answers true for
  pc,            \* position of the main async function
  good, bad,     \* the current bounds
  middle,        \* Math.round((good + bad) / 2)
  revision,      \* result of findDownloadableRevision, Null when none
  down, up,      \* the two expansion fronts
  downOk, upOk,  \* the two concurrent probes: "idle", "pending", "true", "false"
  probed,        \* every revision canDownload was asked about
  shouldRemove,  \* !revisionInfo(revision).local
  fresh,         \* artifacts downloaded by this run that are on disk
  exitCode,      \* the evaluation's result
  answer,        \* the last normalised answer of the manual prompt
  goodSeen,      \* revisions recorded as good
  badSeen,       \* revisions recorded as bad
  codesSeen,     \* the evaluation results consumed so far
  exitedZero,    \* revisions whose evaluation ended with status 0 (answer good)
  preLocal,      \* revisions found on disk from before the run (revisionInfo().local)
  removed,       \* revisions browserFetcher.remove was called for
  spawnFailed,   \* the evaluator child emitted 'error'
  firstDone,     \* the probe of the current round that resolved first
  evaluating,    \* revisions whose evaluator child or prompt is in progress
  \* Launcher and default.js
  opts,          \* launch options and environment: see LaunchOptions
  hpc,           \* position of default.js's main function
  host,          \* the host (node) process: "running", "exited", "killed"
  hostStatus,    \* exit status of the host, -1 while it has none
  temporaryUserDataDir, \* "null" or "dir"
  dirExists,     \* the temporary directory is on the filesystem
  chrome,        \* the launched OS process: "none", "running", "dead"
  chromePid,     \* chromeProcess.pid is defined
  chromeKilled,  \* chromeProcess.killed
  chromeClosed,  \* the chromeClosed flag
  exitEvent,     \* chromeProcess 'exit': "none", "queued", "delivered"
  errorEvent,    \* chromeProcess 'error': "none", "queued", "delivered"
  asyncRm,       \* removeFolderAsync of the exit handler: "none", "pending", "ok", "failed"
  waitForChromeToClose, \* the promise: "pending" or "fulfilled"
  listeners,     \* host events this launch has a listener registered for
  killAttempts,  \* number of process.kill / taskkill calls made
  closeCalls,    \* number of calls of gracefullyCloseChrome
  signalled,     \* host events ('exit', signals) the host has received
  hooksRun,      \* host events whose listener has run
  rmSyncFailed,  \* some removeFolder.sync threw (swallowed)
  hooksAtKill,   \* listeners still registered when a kill and removal ran
  lastAnswer,    \* the last answer ask() returned
  verdict        \* isGood's result: "none", "good", "bad"

bvars == <<argv, avail, pc, good, bad, middle, revision, down, up, downOk, upOk,
           probed, shouldRemove, fresh, exitCode, answer, goodSeen, badSeen, codesSeen, exitedZero, preLocal, removed, spawnFailed, firstDone, evaluating>>

lvars == <<opts, hpc, host, hostStatus, temporaryUserDataDir, dirExists, chrome,
           chromePid, chromeKilled, chromeClosed, exitEvent, errorEvent, asyncRm,
           waitForChromeToClose, listeners, killAttempts, closeCalls, signalled, hooksRun,
           rmSyncFailed, hooksAtKill, lastAnswer, verdict>>

vars == <<bvars, lvars>>

\* ============================================================== index.js

\* A command-line value of --good / --bad as minimist delivers it.
ArgValues ==
  { [kind |-> "absent", value |-> 0], [kind |-> "string", value |-> 0] }
    \cup { [kind |-> "number", value |-> v] : v \in Revisions }

\* getRevisionArgument exits the process with status 1.
ArgRejected(a) ==
  /\ a.kind # "absent"
  /\ \/ a.kind # "number"
     \/ a.value <= defaultMinimumRevision
     \/ a.value >= maxRevision

getRevisionArgument(a, defaultValue) ==
  IF a.kind = "absent" THEN defaultValue ELSE a.value

\* The bounds bisect is called with.
good0 == getRevisionArgument(argv.good, defaultMinimumRevision)
bad0 == getRevisionArgument(argv.bad, maxRevision)

Min(a, b) == IF a < b THEN a ELSE b
Max(a, b) == IF a > b THEN a ELSE b
Abs(a) == IF a < 0 THEN -a ELSE a

\* Mutant: Math.floor in place of Math.round.
MathFloorHalf(sum) == sum \div 2

\* Math.round(sum / 2): halves round towards +Infinity.
MathRoundHalf(sum) == (sum + 1) \div 2

canDownload(rev) == rev \in avail

\* The value of a probe's promise once it has resolved.
BoolStr(b) == IF b THEN "true" ELSE "false"

\* An evaluation result: undefined, null (the child was ended by a signal)
\* or a number.
Undefined == [kind |-> "undefined", code |-> 0]
NullCode == [kind |-> "null", code |-> 0]
Code(n) == [kind |-> "number", code |-> n]

\* Exit codes a child process may return.
ExitCodes == {0, 1, 2}

\* JavaScript truthiness of an evaluation result: `if (exitCode)`.
Truthy(e) == e.kind = "number" /\ e.code # 0

NoAnswer == <<"-">>

Str_g == <<"g">>
Str_good == <<"g", "o", "o", "d">>
Str_b == <<"b">>
Str_bad == <<"b", "a", "d">>
Str_y == <<"y">>
Str_yes == <<"y", "e", "s">>
Str_n == <<"n">>
Str_no == <<"n", "o">>
Str_space_no == <<" ", "n", "o">>

BisectInit ==
  /\ argv \in [good : ArgValues, bad : ArgValues, manual : BOOLEAN]
  /\ avail \in SUBSET Revisions
  /\ pc = "main"
  /\ good = good0
  /\ bad = bad0
  /\ middle = Null
  /\ revision = Null
  /\ down = Null
  /\ up = Null
  /\ downOk = "idle"
  /\ upOk = "idle"
  /\ probed = {}
  /\ shouldRemove = FALSE
  /\ fresh = {}
  /\ exitCode = Undefined
  /\ answer = NoAnswer
  /\ goodSeen = {}
  /\ badSeen = {}
  /\ codesSeen = {}
  /\ exitedZero = {}
  /\ preLocal = {}
  /\ removed = {}
  /\ spawnFailed = FALSE
  /\ firstDone = "none"
  /\ evaluating = {}

\* The bisection is not part of the behaviour (the launcher is explored alone).
BisectIdle ==
  /\ argv = [good |-> [kind |-> "absent", value |-> 0],
             bad |-> [kind |-> "absent", value |-> 0], manual |-> FALSE]
  /\ avail = {}
  /\ pc = "idle"
  /\ good = good0
  /\ bad = bad0
  /\ middle = Null
  /\ revision = Null
  /\ down = Null
  /\ up = Null
  /\ downOk = "idle"
  /\ upOk = "idle"
  /\ probed = {}
  /\ shouldRemove = FALSE
  /\ fresh = {}
  /\ exitCode = Undefined
  /\ answer = NoAnswer
  /\ goodSeen = {}
  /\ badSeen = {}
  /\ codesSeen = {}
  /\ exitedZero = {}
  /\ preLocal = {}
  /\ removed = {}
  /\ spawnFailed = FALSE
  /\ firstDone = "none"
  /\ evaluating = {}

\* The main function up to the call of bisect: validates --good and --bad.
Main ==
  /\ pc = "main"
  /\ pc' = IF ArgRejected(argv.good) \/ ArgRejected(argv.bad) THEN "exit1" ELSE "loop"
  /\ UNCHANGED <<argv, avail, good, bad, middle, revision, down, up, downOk, upOk,
                 probed, shouldRemove, fresh, exitCode, answer, goodSeen, badSeen, codesSeen, exitedZero, preLocal, removed, spawnFailed, firstDone, evaluating>>
  /\ UNCHANGED lvars

\* bisect, top of the loop: the midpoint, and findDownloadableRevision up to
\* its first canDownload(rev).
LoopTop ==
  /\ pc = "loop"
  /\ middle' = MathRoundHalf(good + bad)
  /\ probed' = probed \cup {middle'}
  /\ down' = middle'
  /\ up' = middle'
  /\ IF canDownload(middle')
       THEN revision' = middle' /\ pc' = "check"
       ELSE revision' = revision /\ pc' = "find_test"
  /\ UNCHANGED <<argv, avail, good, bad, downOk, upOk, shouldRemove, fresh,
                 exitCode, answer, goodSeen, badSeen, codesSeen, exitedZero, preLocal, removed, spawnFailed, firstDone, evaluating>>
  /\ UNCHANGED lvars

\* The condition of findDownloadableRevision's while loop.
FindLoopCondition(min, max) == min <= down \/ up <= max

\* findDownloadableRevision: the test of the while loop, `return null` after it.
FindTest ==
  /\ pc = "find_test"
  /\ IF FindLoopCondition(Min(good, bad), Max(good, bad))
       THEN pc' = "find_body" /\ revision' = revision
       ELSE pc' = "check" /\ revision' = Null
  /\ UNCHANGED <<argv, avail, good, bad, middle, down, up, downOk, upOk, probed,
                 shouldRemove, fresh, exitCode, answer, goodSeen, badSeen, codesSeen, exitedZero, preLocal, removed, spawnFailed, firstDone, evaluating>>
  /\ UNCHANGED lvars

\* Mutants: the fronts move while they are on a bound, not only inside.
DownMoves_Inclusive(min) == down >= min
UpMoves_Inclusive(max) == up <= max

\* Which fronts move in one round: `down > min`, `up < max`.
DownMoves(min) == down > min
UpMoves(max) == up < max

\* findDownloadableRevision: the two arguments of Promise.all, --down and ++up
\* and the start of the two probes.
ProbeStart ==
  /\ pc = "find_body"
  /\ LET dm == DownMoves(Min(good, bad))
         um == UpMoves(Max(good, bad))
     IN /\ down' = IF dm THEN down - 1 ELSE down
        /\ up' = IF um THEN up + 1 ELSE up
        /\ downOk' = IF dm THEN "pending" ELSE "false"
        /\ upOk' = IF um THEN "pending" ELSE "false"
        /\ probed' = probed \cup (IF dm THEN {down - 1} ELSE {})
                            \cup (IF um THEN {up + 1} ELSE {})
  /\ pc' = "find_wait"
  /\ firstDone' = "none"
  /\ UNCHANGED <<argv, avail, good, bad, middle, revision, shouldRemove, fresh,
                 exitCode, answer, goodSeen, badSeen, codesSeen, exitedZero, preLocal, removed, spawnFailed, evaluating>>
  /\ UNCHANGED lvars

\* probe(down) resolves.
ProbeDownDone ==
  /\ pc = "find_wait"
  /\ downOk = "pending"
  /\ downOk' = BoolStr(canDownload(down))
  /\ firstDone' = IF firstDone = "none" THEN "down" ELSE firstDone
  /\ UNCHANGED <<argv, avail, pc, good, bad, middle, revision, down, up, upOk,
                 probed, shouldRemove, fresh, exitCode, answer, goodSeen, badSeen, codesSeen, exitedZero, preLocal, removed, spawnFailed, evaluating>>
  /\ UNCHANGED lvars

\* probe(up) resolves.
ProbeUpDone ==
  /\ pc = "find_wait"
  /\ upOk = "pending"
  /\ upOk' = BoolStr(canDownload(up))
  /\ firstDone' = IF firstDone = "none" THEN "up" ELSE firstDone
  /\ UNCHANGED <<argv, avail, pc, good, bad, middle, revision, down, up, downOk,
                 probed, shouldRemove, fresh, exitCode, answer, goodSeen, badSeen, codesSeen, exitedZero, preLocal, removed, spawnFailed, evaluating>>
  /\ UNCHANGED lvars

\* Mutant: up is looked at before down.
RoundResult_UpFirst == IF upOk = "true" THEN up ELSE IF downOk = "true" THEN down ELSE Null

\* The candidate one round of probes yields: down first, then up.
RoundResult == IF downOk = "true" THEN down ELSE IF upOk = "true" THEN up ELSE Null

\* Promise.all has resolved: return down, return up, or go round again.
ProbeJoin ==
  /\ pc = "find_wait"
  /\ downOk # "pending"
  /\ upOk # "pending"
  /\ IF RoundResult # Null
       THEN revision' = RoundResult /\ pc' = "check"
       ELSE revision' = revision /\ pc' = "find_test"
  /\ downOk' = "idle"
  /\ upOk' = "idle"
  /\ UNCHANGED <<argv, avail, good, bad, middle, down, up, probed, shouldRemove,
                 fresh, exitCode, answer, goodSeen, badSeen, codesSeen, exitedZero, preLocal, removed, spawnFailed, firstDone, evaluating>>
  /\ UNCHANGED lvars

\* Mutant: the comparison with good is missing.
LoopBreaks_NoGoodTest == revision = Null \/ revision = bad

\* Mutant: the comparison with bad is missing.
LoopBreaks_NoBadTest == revision = Null \/ revision = good

\* `if (!revision || revision === good || revision === bad) break;`
LoopBreaks == revision = Null \/ revision = good \/ revision = bad

Check ==
  /\ pc = "check"
  /\ pc' = IF LoopBreaks THEN "range" ELSE "download"
  /\ firstDone' = "none"
  /\ UNCHANGED <<argv, avail, good, bad, middle, revision, down, up, downOk, upOk,
                 probed, shouldRemove, fresh, exitCode, answer, goodSeen, badSeen, codesSeen, exitedZero, preLocal, removed, spawnFailed, evaluating>>
  /\ UNCHANGED lvars

\* shouldRemove and downloadRevision. A revision that is local is returned as
\* it is; a download may come back empty, which exits the process.
Download ==
  /\ pc = "download"
  /\ \E local \in BOOLEAN, ok \in BOOLEAN :
       /\ local => ok
       /\ shouldRemove' = ~local
       /\ fresh' = IF ok /\ ~local THEN fresh \cup {revision} ELSE fresh
       /\ preLocal' = IF local THEN preLocal \cup {revision} ELSE preLocal
       /\ pc' = IF ~ok THEN "exit1" ELSE IF argv.manual THEN "prompt" ELSE "script"
  /\ UNCHANGED <<argv, avail, good, bad, middle, revision, down, up, downOk, upOk,
                 probed, exitCode, answer, goodSeen, badSeen, codesSeen, exitedZero, removed, spawnFailed, firstDone, evaluating>>
  /\ UNCHANGED lvars

\* The exit code the manual prompt derives from a normalised answer.
PromptCode(a) ==
  IF a = Str_g \/ a = Str_good THEN Code(0)
  ELSE IF a = Str_b \/ a = Str_bad THEN Code(1)
  ELSE Undefined

\* Mutant: the evaluation is started and not awaited.
Awaiting_NotAwaited(waitPc) == "update"

\* `await promptAsync(...)`, `await runScript(...)`: bisect is suspended until
\* the promise of the evaluation settles.
Awaiting(waitPc) == waitPc

\* The manual prompt is shown: promptAsync asks the question.
PromptAsk ==
  /\ pc = "prompt"
  /\ evaluating' = evaluating \cup {revision}
  /\ pc' = Awaiting("prompt_wait")
  /\ UNCHANGED <<argv, avail, good, bad, middle, revision, down, up, downOk, upOk,
                 probed, shouldRemove, fresh, exitCode, answer, goodSeen, badSeen,
                 codesSeen, exitedZero, preLocal, removed, spawnFailed, firstDone>>
  /\ UNCHANGED lvars

\* One round of the manual prompt: the user answers, trim, toLowerCase, the
\* test; an unknown answer asks again.
Prompt ==
  /\ pc = "prompt_wait"
  /\ \E typed \in Answers :
       /\ answer' = toLowerCase(trim(typed))
       /\ exitCode' = PromptCode(answer')
       /\ pc' = IF exitCode' = Undefined THEN "prompt_wait" ELSE "update"
       /\ evaluating' = IF exitCode' = Undefined THEN evaluating ELSE evaluating \ {revision}
  /\ UNCHANGED <<argv, avail, good, bad, middle, revision, down, up, downOk, upOk,
                 probed, shouldRemove, fresh, goodSeen, badSeen, codesSeen, exitedZero, preLocal, removed, spawnFailed, firstDone>>
  /\ UNCHANGED lvars

\* How a child process may end: 'exit' with a code, 'exit' with code null
\* after a signal, or 'error' when it could not be spawned.
ChildEnds ==
  { [event |-> "exit", code |-> Code(c)] : c \in ExitCodes }
    \cup { [event |-> "exit", code |-> NullCode], [event |-> "error", code |-> Undefined] }

\* Mutant: the 'error' listener resolves the promise with 1.
RunScriptSettles_ErrorResolves(e) ==
  /\ exitCode' = IF e.event = "exit" THEN e.code ELSE Code(1)
  /\ pc' = "update"

\* The promise runScript returns: 'exit' resolves it with the code, and the
\* awaiting bisect goes on; 'error' rejects it, and bisect throws.
RunScriptSettles(e) ==
  IF e.event = "exit"
    THEN exitCode' = e.code /\ pc' = "update"
    ELSE exitCode' = exitCode /\ pc' = "rejected"

\* runScript is called: the child is started, bisect awaits the promise.
StartScript ==
  /\ pc = "script"
  /\ evaluating' = evaluating \cup {revision}
  /\ pc' = Awaiting("script_wait")
  /\ UNCHANGED <<argv, avail, good, bad, middle, revision, down, up, downOk, upOk,
                 probed, shouldRemove, fresh, exitCode, answer, goodSeen, badSeen,
                 codesSeen, exitedZero, preLocal, removed, spawnFailed, firstDone>>
  /\ UNCHANGED lvars

\* runScript: the child ends and the promise settles.
RunScript ==
  /\ pc = "script_wait"
  /\ \E e \in ChildEnds :
       /\ spawnFailed' = (e.event = "error")
       /\ RunScriptSettles(e)
  /\ evaluating' = evaluating \ {revision}
  /\ UNCHANGED <<argv, avail, good, bad, middle, revision, down, up, downOk, upOk,
                 probed, shouldRemove, fresh, answer, goodSeen, badSeen, codesSeen, exitedZero, preLocal, removed, firstDone>>
  /\ UNCHANGED lvars

\* Mutant: the two branches swapped.
RecordsBad_Swapped(e) == ~Truthy(e)

\* `if (exitCode) bad = revision; else good = revision;`
RecordsBad(e) == Truthy(e)

\* Mutant: the artifact is removed whatever shouldRemove says.
RemovesArtifact_Always == TRUE

\* `if (shouldRemove) await browserFetcher.remove(revision);`
RemovesArtifact == shouldRemove

\* After the evaluation: the removal of a fresh artifact and the new bound.
Update ==
  /\ pc = "update"
  /\ fresh' = IF RemovesArtifact THEN fresh \ {revision} ELSE fresh
  /\ removed' = IF RemovesArtifact THEN removed \cup {revision} ELSE removed
  /\ IF RecordsBad(exitCode)
       THEN /\ bad' = revision
            /\ good' = good
            /\ badSeen' = badSeen \cup {revision}
            /\ goodSeen' = goodSeen
       ELSE /\ good' = revision
            /\ bad' = bad
            /\ goodSeen' = goodSeen \cup {revision}
            /\ badSeen' = badSeen
  /\ codesSeen' = codesSeen \cup {exitCode}
  /\ exitedZero' = IF exitCode = Code(0) THEN exitedZero \cup {revision} ELSE exitedZero
  /\ exitCode' = Undefined
  /\ shouldRemove' = FALSE
  /\ answer' = NoAnswer
  /\ pc' = "loop"
  /\ UNCHANGED <<argv, avail, middle, revision, down, up, downOk, upOk, probed, preLocal, spawnFailed, firstDone, evaluating>>
  /\ UNCHANGED lvars

\* After the loop: the range is printed and bisect returns.
PrintRange ==
  /\ pc = "range"
  /\ pc' = "done"
  /\ UNCHANGED <<argv, avail, good, bad, middle, revision, down, up, downOk, upOk,
                 probed, shouldRemove, fresh, exitCode, answer, goodSeen, badSeen, codesSeen, exitedZero, preLocal, removed, spawnFailed, firstDone, evaluating>>
  /\ UNCHANGED lvars

BisectNext ==
  \/ Main
  \/ LoopTop
  \/ FindTest
  \/ ProbeStart
  \/ ProbeDownDone
  \/ ProbeUpDone
  \/ ProbeJoin
  \/ Check
  \/ Download
  \/ PromptAsk
  \/ Prompt
  \/ StartScript
  \/ RunScript
  \/ Update
  \/ PrintRange

\* The run is over: bisect returned, the process exited with status 1, or
\* runScript's promise rejected.
Terminated == pc \in {"done", "exit1", "rejected"}

\* ====================================== Launcher.js and default.js

\* The launcher is not part of the behaviour (the bisection is explored alone).
LauncherIdle ==
  /\ opts = [handleSIGINT |-> TRUE, handleSIGTERM |-> TRUE, handleSIGHUP |-> TRUE,
             userDataDirArg |-> FALSE, executable |-> "ok"]
  /\ hpc = "idle"
  /\ host = "running"
  /\ hostStatus = -1
  /\ temporaryUserDataDir = "null"
  /\ dirExists = FALSE
  /\ chrome = "none"
  /\ chromePid = FALSE
  /\ chromeKilled = FALSE
  /\ chromeClosed = FALSE
  /\ exitEvent = "none"
  /\ errorEvent = "none"
  /\ asyncRm = "none"
  /\ waitForChromeToClose = "pending"
  /\ listeners = {}
  /\ killAttempts = 0
  /\ closeCalls = 0
  /\ signalled = {}
  /\ hooksRun = {}
  /\ rmSyncFailed = FALSE
  /\ hooksAtKill = {}
  /\ lastAnswer = NoAnswer
  /\ verdict = "none"

\* What a caller of Launcher.launch decides, and what it finds: the three
\* handleSIG* options, whether the arguments already name a --user-data-dir,
\* and the executable path ("ok": it starts; "enoent": no such file;
\* "invalid": no path at all, as when PUPPETEER_EXECUTABLE_PATH is unset).
LaunchOptions ==
  [handleSIGINT : BOOLEAN, handleSIGTERM : BOOLEAN, handleSIGHUP : BOOLEAN,
   userDataDirArg : BOOLEAN, executable : {"ok", "enoent", "invalid"}]

HostEvents == {"exit", "SIGINT", "SIGTERM", "SIGHUP"}
Signals == {"SIGINT", "SIGTERM", "SIGHUP"}

LauncherInit ==
  /\ opts \in LaunchOptions
  /\ hpc = "launch"
  /\ host = "running"
  /\ hostStatus = -1
  /\ temporaryUserDataDir = "null"
  /\ dirExists = FALSE
  /\ chrome = "none"
  /\ chromePid = FALSE
  /\ chromeKilled = FALSE
  /\ chromeClosed = FALSE
  /\ exitEvent = "none"
  /\ errorEvent = "none"
  /\ asyncRm = "none"
  /\ waitForChromeToClose = "pending"
  /\ listeners = {}
  /\ killAttempts = 0
  /\ closeCalls = 0
  /\ signalled = {}
  /\ hooksRun = {}
  /\ rmSyncFailed = FALSE
  /\ hooksAtKill = {}
  /\ lastAnswer = NoAnswer
  /\ verdict = "none"

\* The host runs JavaScript: it is alive and no 'error' of the child is due
\* (that one is emitted on the next tick, before any other event).
HostReady == host = "running" /\ errorEvent # "queued"

\* The listeners launch registers: 'exit' always, a signal when its option is set.
RegisteredListeners ==
  {"exit"} \cup (IF opts.handleSIGINT THEN {"SIGINT"} ELSE {})
           \cup (IF opts.handleSIGTERM THEN {"SIGTERM"} ELSE {})
           \cup (IF opts.handleSIGHUP THEN {"SIGHUP"} ELSE {})

\* Launcher.launch as default.js calls it. Without a path spawn throws, launch
\* rejects and default.js exits with status 1; otherwise launch returns the
\* close function, also when the executable does not exist ('error' follows).
Launch ==
  /\ hpc = "launch"
  /\ HostReady
  /\ temporaryUserDataDir' = IF opts.userDataDirArg THEN "null" ELSE "dir"
  /\ dirExists' = ~opts.userDataDirArg
  /\ IF opts.executable = "invalid"
       THEN /\ hpc' = "exited"
            /\ host' = "exited"
            /\ hostStatus' = 1
            /\ signalled' = signalled \cup {"exit"}
            /\ UNCHANGED <<chrome, chromePid, errorEvent, listeners>>
       ELSE /\ hpc' = "ask"
            /\ chrome' = IF opts.executable = "ok" THEN "running" ELSE "none"
            /\ chromePid' = (opts.executable = "ok")
            /\ errorEvent' = IF opts.executable = "ok" THEN "none" ELSE "queued"
            /\ listeners' = RegisteredListeners
            /\ UNCHANGED <<host, hostStatus, signalled>>
  /\ UNCHANGED <<opts, chromeKilled, chromeClosed, exitEvent, asyncRm,
                 waitForChromeToClose, killAttempts, closeCalls, hooksRun,
                 rmSyncFailed, hooksAtKill, lastAnswer, verdict>>
  /\ UNCHANGED bvars

\* Mutant: only the 'exit' listener is removed.
removeEventListeners_ExitOnly(ls) == ls \ {"exit"}

\* removeEventListeners: every listener of the list is removed from its
\* emitter and the list is emptied.
removeEventListeners(ls) == ls \ {l \in ls : TRUE}

\* Mutant: the negation of chromeProcess.killed is missing.
ShouldKill_MissingNot == chromePid /\ chromeKilled /\ ~chromeClosed

\* `chromeProcess.pid && !chromeProcess.killed && !chromeClosed`
ShouldKill == chromePid /\ ~chromeKilled /\ ~chromeClosed

\* killChrome: removeEventListeners, the forced kill of the process group
\* (process.kill does not set chromeProcess.killed; an error is swallowed),
\* and removeFolder.sync, which throws without a directory name or when the
\* removal fails (rmOk false); that is swallowed too.
killChrome(rmOk) ==
  /\ listeners' = removeEventListeners(listeners)
  /\ hooksAtKill' = hooksAtKill \cup listeners'
  /\ killAttempts' = IF ShouldKill THEN killAttempts + 1 ELSE killAttempts
  /\ chrome' = IF ShouldKill /\ chrome = "running" THEN "dead" ELSE chrome
  /\ exitEvent' = IF ShouldKill /\ chrome = "running" THEN "queued" ELSE exitEvent
  /\ chromeKilled' = chromeKilled
  /\ dirExists' = IF temporaryUserDataDir # "null" /\ rmOk THEN FALSE ELSE dirExists
  /\ rmSyncFailed' = (rmSyncFailed \/ (temporaryUserDataDir # "null" /\ ~rmOk))

\* Outcomes of a removal: one of a directory that exists may fail.
RmOutcomes == IF dirExists THEN BOOLEAN ELSE {TRUE}

\* `process.exit(good ? 0 : 1)` where main resumes after `await close()`.
MainExitStatus(v) == IF v = "good" THEN 0 ELSE 1

\* isGood's answer sets.
goodAnswers == {Str_g, Str_good, Str_y, Str_yes}
badAnswers == {Str_b, Str_bad, Str_n, Str_space_no}

\* isGood's result for the answer ask() returned.
isGood(a) ==
  IF a \in goodAnswers THEN "good" ELSE IF a \in badAnswers THEN "bad" ELSE "none"

\* default.js: the user answers the question. An unknown answer asks again;
\* otherwise isGood returns, main calls close() and awaits its promise, and if
\* that is already fulfilled goes on to process.exit.
Ask ==
  /\ hpc = "ask"
  /\ HostReady
  /\ \E typed \in Answers :
       /\ lastAnswer' = toLowerCase(typed)
       /\ verdict' = isGood(lastAnswer')
       /\ IF verdict' = "none"
            THEN UNCHANGED <<hpc, host, hostStatus, signalled, listeners, killAttempts,
                             chrome, exitEvent, chromeKilled, dirExists, rmSyncFailed, hooksAtKill,
                             closeCalls>>
            ELSE /\ closeCalls' = closeCalls + 1
                 /\ \E rmOk \in RmOutcomes : killChrome(rmOk)
                 /\ IF waitForChromeToClose = "fulfilled"
                      THEN /\ hpc' = "exited"
                           /\ host' = "exited"
                           /\ hostStatus' = MainExitStatus(verdict')
                           /\ signalled' = signalled \cup {"exit"}
                      ELSE /\ hpc' = "awaiting"
                           /\ UNCHANGED <<host, hostStatus, signalled>>
  /\ UNCHANGED <<opts, temporaryUserDataDir, chromePid, chromeClosed, errorEvent,
                 asyncRm, waitForChromeToClose, hooksRun>>
  /\ UNCHANGED bvars

\* The host receives a signal. With a listener: SIGINT runs killChrome and
\* process.exit(130); SIGTERM and SIGHUP run gracefullyCloseChrome and the
\* host lives on. Without one the signal ends the host at once.
HostSignal ==
  /\ HostReady
  /\ \E sig \in Signals :
       /\ signalled' = signalled \cup {sig}
       /\ IF sig \in listeners
            THEN /\ hooksRun' = hooksRun \cup {sig}
                 /\ \E rmOk \in RmOutcomes : killChrome(rmOk)
                 /\ IF sig = "SIGINT"
                      THEN /\ host' = "exited"
                           /\ hostStatus' = 130
                           /\ closeCalls' = closeCalls
                      ELSE /\ closeCalls' = closeCalls + 1
                           /\ UNCHANGED <<host, hostStatus>>
            ELSE /\ host' = "killed"
                 /\ UNCHANGED <<hostStatus, hooksRun, closeCalls, listeners, killAttempts,
                                chrome, exitEvent, chromeKilled, dirExists, rmSyncFailed, hooksAtKill>>
  /\ UNCHANGED <<opts, hpc, temporaryUserDataDir, chromePid, chromeClosed, errorEvent,
                 asyncRm, waitForChromeToClose, lastAnswer, verdict>>
  /\ UNCHANGED bvars

\* The host exits for a reason of its own (an uncaught exception, a
\* process.exit elsewhere): 'exit' is emitted and its listener, killChrome,
\* runs if it is still registered.
HostExits ==
  /\ HostReady
  /\ hpc \in {"ask", "awaiting"}
  /\ host' = "exited"
  /\ hostStatus' = 1
  /\ signalled' = signalled \cup {"exit"}
  /\ IF "exit" \in listeners
       THEN /\ hooksRun' = hooksRun \cup {"exit"}
            /\ \E rmOk \in RmOutcomes : killChrome(rmOk)
       ELSE UNCHANGED <<hooksRun, listeners, killAttempts, chrome, exitEvent,
                        chromeKilled, dirExists, rmSyncFailed, hooksAtKill>>
  /\ UNCHANGED <<opts, hpc, temporaryUserDataDir, chromePid, chromeClosed, errorEvent,
                 asyncRm, waitForChromeToClose, closeCalls, lastAnswer, verdict>>
  /\ UNCHANGED bvars

\* The child's 'error' (the executable does not exist) is emitted and has no
\* listener: an uncaught exception, the host exits with status 1 through 'exit'.
SpawnError ==
  /\ host = "running"
  /\ errorEvent = "queued"
  /\ errorEvent' = "delivered"
  /\ host' = "exited"
  /\ hostStatus' = 1
  /\ signalled' = signalled \cup {"exit"}
  /\ IF "exit" \in listeners
       THEN /\ hooksRun' = hooksRun \cup {"exit"}
            /\ \E rmOk \in RmOutcomes : killChrome(rmOk)
       ELSE UNCHANGED <<hooksRun, listeners, killAttempts, chrome, exitEvent,
                        chromeKilled, dirExists, rmSyncFailed, hooksAtKill>>
  /\ UNCHANGED <<opts, hpc, temporaryUserDataDir, chromePid, chromeClosed,
                 asyncRm, waitForChromeToClose, closeCalls, lastAnswer, verdict>>
  /\ UNCHANGED bvars

\* The launched process ends by itself (the user closes the browser, a crash).
ChromeExits ==
  /\ chrome = "running"
  /\ chrome' = "dead"
  /\ exitEvent' = "queued"
  /\ UNCHANGED <<opts, hpc, host, hostStatus, temporaryUserDataDir, dirExists,
                 chromePid, chromeKilled, chromeClosed, errorEvent, asyncRm,
                 waitForChromeToClose, listeners, killAttempts, closeCalls, signalled,
                 hooksRun, rmSyncFailed, hooksAtKill, lastAnswer, verdict>>
  /\ UNCHANGED bvars

\* waitForChromeToClose is fulfilled: a main that awaits close() resumes and
\* calls process.exit.
Fulfil ==
  /\ waitForChromeToClose' = "fulfilled"
  /\ IF hpc = "awaiting"
       THEN /\ hpc' = "exited"
            /\ host' = "exited"
            /\ hostStatus' = MainExitStatus(verdict)
            /\ signalled' = signalled \cup {"exit"}
       ELSE UNCHANGED <<hpc, host, hostStatus, signalled>>

\* The 'exit' listener of chromeProcess: chromeClosed, then the asynchronous
\* removal of the directory, or fulfil() when there is none.
ChromeExitDelivered ==
  /\ HostReady
  /\ exitEvent = "queued"
  /\ exitEvent' = "delivered"
  /\ chromeClosed' = TRUE
  /\ IF temporaryUserDataDir # "null"
       THEN /\ asyncRm' = "pending"
            /\ UNCHANGED <<waitForChromeToClose, hpc, host, hostStatus, signalled>>
       ELSE /\ asyncRm' = asyncRm
            /\ Fulfil
  /\ UNCHANGED <<opts, temporaryUserDataDir, dirExists, chrome, chromePid, chromeKilled,
                 errorEvent, listeners, killAttempts, closeCalls, hooksRun,
                 rmSyncFailed, hooksAtKill, lastAnswer, verdict>>
  /\ UNCHANGED bvars

\* removeFolderAsync settles: then(fulfill), or catch(console.error).
AsyncRmSettles ==
  /\ HostReady
  /\ asyncRm = "pending"
  /\ \E rmOk \in RmOutcomes :
       IF rmOk
         THEN /\ asyncRm' = "ok"
              /\ dirExists' = FALSE
              /\ Fulfil
         ELSE /\ asyncRm' = "failed"
              /\ UNCHANGED <<dirExists, waitForChromeToClose, hpc, host, hostStatus,
                             signalled>>
  /\ UNCHANGED <<opts, temporaryUserDataDir, chrome, chromePid, chromeKilled,
                 chromeClosed, exitEvent, errorEvent, listeners, killAttempts,
                 closeCalls, hooksRun, rmSyncFailed, hooksAtKill, lastAnswer, verdict>>
  /\ UNCHANGED bvars

LauncherNext ==
  \/ Launch
  \/ Ask
  \/ HostSignal
  \/ HostExits
  \/ SpawnError
  \/ ChromeExits
  \/ ChromeExitDelivered
  \/ AsyncRmSettles

\* ========================================================= specifications

Init == BisectInit /\ LauncherIdle

Next == BisectNext

\* The bisection run of index.js.
Spec == Init /\ [][Next]_vars

\* The bisection run under the event loop's scheduling: a step that can be taken
\* is eventually taken (every await of the run resolves), and the user of the
\* manual prompt eventually types an answer the prompt knows.
FairSpec == Init /\ [][Next]_vars /\ WF_vars(Next) /\ SF_vars(Prompt /\ pc' = "update")

\* ================================================================ claims

min0 == Min(good0, bad0)
max0 == Max(good0, bad0)

\* The revisions strictly between a and b.
Interior(a, b) == { r \in Revisions : Min(a, b) < r /\ r < Max(a, b) }

\* C1: for good # bad, every set of downloadable revisions and every
\* evaluator, the bisection run terminates.
C1_RunTerminates == (good0 # bad0) ~> Terminated

\* C2 (as amended): when bisect returns, no revision strictly between the
\* final good and bad is downloadable.
C2_BracketMinimal == pc = "done" => Interior(good, bad) \cap avail = {}

\* C2 (as stated): the above, and every downloadable revision of the initial
\* interval was evaluated or is an endpoint of the returned bracket.
C2_AllDownloadableEvaluated ==
  pc = "done" =>
    /\ Interior(good, bad) \cap avail = {}
    /\ \A r \in avail \cap (min0 .. max0) : r \in goodSeen \cup badSeen \cup {good, bad}

\* C2 witness: a run that evaluated something returns a bracket with a gap in
\* it, while the initial interval held downloadable revisions.
C2_Witness ==
  /\ pc = "done"
  /\ goodSeen \cup badSeen # {}
  /\ Abs(good - bad) > 1
  /\ Interior(good0, bad0) \cap avail # {}

\* C3: every revision probed, downloaded or evaluated lies in
\* [min(good0, bad0), max(good0, bad0)], and so do the current and the
\* returned good and bad.
C3_WithinInitialInterval ==
  /\ probed \subseteq min0 .. max0
  /\ goodSeen \cup badSeen \cup fresh \subseteq min0 .. max0
  /\ pc \in {"download", "prompt", "prompt_wait", "script", "script_wait", "update"} => revision \in min0 .. max0
  /\ min0 <= Min(good, bad)
  /\ Max(good, bad) <= max0

\* C3 witness: a finished run that evaluated a revision has probed as far as
\* an initial endpoint although downloadable revisions lie just outside both
\* endpoints.
C3_Witness ==
  /\ pc = "done"
  /\ goodSeen \cup badSeen # {}
  /\ max0 \in probed
  /\ max0 \notin avail
  /\ {min0 - 1, max0 + 1} \subseteq avail

\* C4: a revision findDownloadableRevision returns lies in
\* [min(from, to), max(from, to)].
C4_ResultWithinBounds ==
  (pc = "check" /\ revision # Null) =>
    (Min(good, bad) <= revision /\ revision <= Max(good, bad))

\* C4 witness: the expansion returns the upper bound while the revision just
\* above it is downloadable too.
C4_Witness ==
  /\ pc = "check"
  /\ revision # middle
  /\ revision = Max(good, bad)
  /\ (revision + 1) \in avail

\* C5: once both fronts have reached min and max without a downloadable
\* revision, findDownloadableRevision leaves its loop and returns null (stated
\* for from # to; every revision of the interval has been probed by then).
C5_ReturnsNullAtBounds ==
  [][(pc = "find_test" /\ good # bad /\ down = Min(good, bad) /\ up = Max(good, bad))
       => (pc' = "check" /\ revision' = Null)]_vars

\* Every evaluation so far ended with exit code 0.
AlwaysExitsZero == codesSeen \subseteq {Code(0)}

\* C6 (as stated): with an evaluator that always exits 0 the original good
\* endpoint is kept while bad moves, and the run ends with good = bad = the
\* original good or with nothing downloadable strictly between the bounds.
C6_BadDrivenToGood ==
  AlwaysExitsZero =>
    /\ good = good0
    /\ pc = "done" => (good = bad /\ good = good0) \/ Interior(good, bad) \cap avail = {}

\* C6 (as amended): with an evaluator that always exits 0 every evaluated
\* revision becomes the new good, the original bad endpoint is kept, good
\* only moves towards bad, and a returned bracket has nothing downloadable
\* strictly between its bounds (good # bad when they differed initially).
C6_GoodDrivenToBad ==
  AlwaysExitsZero =>
    /\ bad = bad0
    /\ badSeen = {}
    /\ goodSeen # {} => good \in goodSeen
    /\ \A r \in goodSeen \cup {good0} : Abs(bad - good) <= Abs(bad - r)
    /\ pc = "done" => Interior(good, bad) \cap avail = {} /\ (good0 # bad0 => good # bad)

\* C6 witness: a scripted run whose evaluations all exited 0 has returned
\* after moving good twice.
C6_Witness ==
  /\ pc = "done"
  /\ ~argv.manual
  /\ AlwaysExitsZero
  /\ Cardinality(goodSeen) >= 2
  /\ good # good0

\* C7: in scripted mode the candidate becomes good exactly when the child's
\* exit status is 0 and becomes bad for every other way the child ends; one
\* endpoint changes per evaluation.
C7_GoodIffStatusZero ==
  [][(pc = "update" /\ ~argv.manual) =>
       /\ (good' = revision /\ bad' = bad) <=> (exitCode = Code(0))
       /\ (bad' = revision /\ good' = good) <=> (exitCode # Code(0))]_vars

\* C11: an artifact that was on disk before the run is never removed; a
\* freshly downloaded one is removed after its evaluation and before the
\* next iteration, so at most one is on disk at a time and none is once the
\* run has ended.
C11_FreshArtifactsRemoved ==
  /\ removed \cap preLocal = {}
  /\ Cardinality(fresh) <= 1
  /\ pc \in {"loop", "find_test", "find_body", "find_wait", "check", "download"} => fresh = {}
  /\ Terminated => fresh = {}

\* C12: when the evaluator process cannot be spawned the run aborts: the
\* error is taken for no outcome, good and bad stay as they are, and no step
\* of the run follows.
C12_SpawnErrorAborts ==
  /\ [](spawnFailed =>
          /\ pc = "rejected"
          /\ exitCode = Undefined
          /\ revision \notin goodSeen \cup badSeen
          /\ good # revision /\ bad # revision)
  /\ [][spawnFailed' => (good' = good /\ bad' = bad /\ goodSeen' = goodSeen
                           /\ badSeen' = badSeen /\ codesSeen' = codesSeen)]_vars
  /\ [][~spawnFailed]_vars

\* C12 witness: the spawn failed in a later iteration, after an evaluation
\* had moved a bound.
C12_Witness ==
  /\ spawnFailed
  /\ pc = "rejected"
  /\ goodSeen \cup badSeen # {}

\* C13: when the executable cannot be found or does not start, launch fails:
\* its caller never holds the close function (it neither asks nor awaits
\* close), and the host does not end with an evaluator's status (0 good, 1 bad).
C13_LaunchFailureIsFatal ==
  opts.executable # "ok" =>
    /\ hpc \notin {"ask", "awaiting"}
    /\ host = "exited" => hostStatus \notin {0, 1}

\* C14: starting from good # bad, a candidate that is evaluated lies strictly
\* between the two bounds, and the update that follows its evaluation strictly
\* decreases |good - bad| and leaves good # bad.
C14_SpanStrictlyDecreases ==
  /\ [](pc \in {"download", "prompt", "prompt_wait", "script", "script_wait", "update"} =>
          /\ Min(good, bad) < revision
          /\ revision < Max(good, bad))
  /\ [][pc = "update" =>
          /\ Abs(good' - bad') < Abs(good - bad)
          /\ good' # bad']_vars

\* C14 witness: a descending pair (good above bad) after both bounds have moved.
C14_Witness ==
  /\ pc = "loop"
  /\ good > bad
  /\ goodSeen # {}
  /\ badSeen # {}
  /\ Abs(good - bad) < Abs(good0 - bad0)

\* bisect is called with adjacent revisions that are both downloadable.
Adjacent0 ==
  /\ ~ArgRejected(argv.good)
  /\ ~ArgRejected(argv.bad)
  /\ Abs(good0 - bad0) = 1
  /\ {good0, bad0} \subseteq avail

\* Nothing was downloaded or evaluated and the pair is the initial one.
NothingEvaluated ==
  /\ good = good0
  /\ bad = bad0
  /\ fresh = {}
  /\ preLocal = {}
  /\ goodSeen \cup badSeen = {}
  /\ codesSeen = {}
  /\ pc \in {"main", "loop", "check", "range", "done"}

\* C15 as stated: with adjacent downloadable bounds the loop body never
\* executes (no midpoint is computed, no availability probe is made), nothing
\* is downloaded or evaluated and the pair is returned unchanged.
C15_LoopBodyNeverExecutes ==
  Adjacent0 =>
    /\ NothingEvaluated
    /\ middle = Null
    /\ probed = {}

\* C15 amended: with adjacent downloadable bounds the first pass of the loop
\* probes the midpoint, which is the upper of the two, and breaks: nothing is
\* downloaded or evaluated and the pair is returned unchanged.
C15_AdjacentReturnsUnchanged ==
  Adjacent0 =>
    /\ NothingEvaluated
    /\ probed \subseteq {Max(good0, bad0)}
    /\ pc \in {"check", "range", "done"} => revision = Max(good0, bad0)

\* C15 witness: a descending adjacent pair has been returned.
C15_Witness ==
  /\ Adjacent0
  /\ good0 > bad0
  /\ pc = "done"
  /\ probed = {good0}

\* C16: bisect is called with the latest revision as good when --good is
\* omitted, and with 305043 as bad when --bad is omitted.
C16_DefaultBounds ==
  (pc = "loop" /\ goodSeen \cup badSeen = {}) =>
    /\ argv.good.kind = "absent" => good = maxRevision
    /\ argv.bad.kind = "absent" => bad = defaultMinimumRevision

\* The downloadable revisions findDownloadableRevision may return in this call.
Candidates == {r \in avail : Min(good, bad) <= r /\ r <= Max(good, bad)}

\* C17: what findDownloadableRevision(middle, good, bad) returns is a
\* downloadable revision of [min, max] nearest to the target, the lower one of
\* two at the same distance, whichever of the two concurrent probes resolved
\* first; and in each round a front that is inside its bound moves by one,
\* also when the other front stands on its bound.
C17_NearestLowerFirst ==
  /\ []((pc = "check" /\ revision # Null) =>
          /\ revision \in Candidates
          /\ \A r \in Candidates :
               \/ Abs(r - middle) > Abs(revision - middle)
               \/ (Abs(r - middle) = Abs(revision - middle) /\ revision <= r))
  /\ [][pc = "find_body" =>
          /\ down > Min(good, bad) => down' = down - 1
          /\ up < Max(good, bad) => up' = up + 1]_vars

\* C17 witness: both revisions at the same distance are downloadable, the
\* probe of the upper one resolved first, and the call has returned.
C17_Witness ==
  /\ pc = "check"
  /\ firstDone = "up"
  /\ down < middle
  /\ middle - down = up - middle
  /\ {down, up} \subseteq Candidates
  /\ revision = down

\* One front went on after the other had stopped on its bound: the call
\* returned the lower bound, farther from the target than the upper bound is.
C17_OneSideKeepsExpanding ==
  /\ pc = "check"
  /\ revision = Min(good, bad)
  /\ up = Max(good, bad)
  /\ middle - revision > up - middle

\* C18: iterations are sequential: a midpoint is computed only when no
\* evaluation is in progress, the previous one has resolved and its candidate
\* has become a bound; and never are two evaluations (evaluator children or
\* prompts) in progress at once.
C18_IterationsSequential ==
  /\ [](Cardinality(evaluating) <= 1)
  /\ [](evaluating # {} => (pc \in {"prompt_wait", "script_wait"} /\ evaluating = {revision}))
  /\ [][pc = "loop" =>
          /\ evaluating = {}
          /\ exitCode = Undefined
          /\ revision = Null \/ revision \in {good, bad}]_vars

\* C18 witness: the evaluator child of a later iteration is running, after
\* the evaluations before it have moved both bounds.
C18_Witness ==
  /\ pc = "script_wait"
  /\ evaluating = {revision}
  /\ goodSeen # {}
  /\ badSeen # {}

\* C19: close removes every listener launch registered before it attempts the
\* kill and the removal of the directory; once close has been invoked no
\* listener is registered, none runs any more, and a later close finds
\* nothing to remove.
C19_CloseDeregistersFirst ==
  /\ [](closeCalls >= 1 => listeners = {})
  /\ [](hooksAtKill = {})
  /\ [][closeCalls >= 1 => (hooksRun' = hooksRun /\ listeners' = listeners)]_vars

\* C19 witness: all four listeners were registered, close was invoked by the
\* SIGTERM or SIGHUP listener and again by default.js, with a kill attempted.
C19_Witness ==
  /\ RegisteredListeners = HostEvents
  /\ closeCalls >= 2
  /\ hooksRun \cap {"SIGTERM", "SIGHUP"} # {}
  /\ killAttempts >= 1
  /\ listeners = {}

\* The evaluated revisions whose evaluation ended in any way but status 0.
exitedOtherwise == (goodSeen \cup badSeen) \ exitedZero

\* With the transition at t, going from good0 towards bad0: the revisions
\* before t are truly good, t and those after it are truly bad.
TrulyBad(r, t) == IF good0 < bad0 THEN r >= t ELSE r <= t
TrulyGood(r, t) == ~TrulyBad(r, t)

\* The initial bounds are what they are said to be, and the evaluator ended
\* with status 0 on truly good revisions only and otherwise on truly bad ones.
ConsistentWith(t) ==
  /\ TrulyGood(good0, t)
  /\ TrulyBad(bad0, t)
  /\ \A r \in exitedZero : TrulyGood(r, t)
  /\ \A r \in exitedOtherwise : TrulyBad(r, t)

Sign(n) == IF n > 0 THEN 1 ELSE IF n < 0 THEN -1 ELSE 0

\* C20: with an evaluator consistent with one good-to-bad transition between
\* a truly good initial good and a truly bad initial bad, good is always a
\* truly good revision, bad a truly bad one, and the pair keeps its initial
\* orientation, so the transition lies in the bracket.
C20_BracketKeepsTransition ==
  \A t \in Revisions :
    ConsistentWith(t) =>
      /\ TrulyGood(good, t)
      /\ TrulyBad(bad, t)
      /\ Sign(bad - good) = Sign(bad0 - good0)

\* The same when no evaluator child was ended by a signal.
C20_WithoutSignals ==
  NullCode \notin codesSeen => C20_BracketKeepsTransition

\* C8: at the interactive evaluator "GOOD", "g" and "yes" (in any case)
\* resolve to good, "bad", "n" and "no" resolve to bad, and an input that is
\* no answer word asks again, resolving nothing.
C8_AnswersResolve ==
  /\ lastAnswer \in {Str_good, Str_g, Str_yes} => verdict = "good"
  /\ lastAnswer \in {Str_bad, Str_n, Str_no} => verdict = "bad"
  /\ lastAnswer \in {<<"o", "k">>, <<>>} => verdict = "none" /\ closeCalls = 0

\* C9: a second call of the close function raises no error (none is
\* modelled: killChrome swallows them) and attempts no second kill of the
\* launched process, wherever the process's exit event falls.
C9_NoSecondKill == closeCalls >= 2 => killAttempts <= 1

\* The launched process is active.
ChromeActive == chrome = "running"

\* The host event received in this step.
EventNow == signalled' \ signalled

C21_CloseEventuallyResolves ==
  /\ [](waitForChromeToClose = "fulfilled" => (chromeClosed /\ exitEvent = "delivered"))
  /\ (closeCalls >= 1 /\ chromeClosed /\ host = "running")
       ~> (waitForChromeToClose = "fulfilled" \/ host # "running")

\* A launch through default.js, with the events of its host and of the
\* launched process.
LInit == LauncherInit /\ BisectIdle

LNext == LauncherNext

LauncherSpec == LInit /\ [][LNext]_vars

\* The same under the event loop's scheduling: an 'exit' of the launched
\* process that is due is delivered, and a removal that was started settles.
\* Signals and the user's answer are not forced.
LauncherFairSpec ==
  LInit /\ [][LNext]_vars /\ WF_vars(ChromeExitDelivered) /\ WF_vars(AsyncRmSettles)

====
